---------------------------- MODULE Spec2Model ----------------------------
(***************************************************************************)
(* Model of the mock user directory: src/src/sample_api.py (dictionary     *)
(* records, validate_input, UserService) and                               *)
(* src/src/sample_api_refactored.py (User dataclass records).              *)
(*                                                                         *)
(* The state is the mapping self.users of every constructed UserService    *)
(* instance, plus the trace of the calls made so far with their arguments  *)
(* and outcomes.  Every function and method of the two files is one        *)
(* action; the module-level functions are operators applied by their       *)
(* action.                                                                 *)
(***************************************************************************)
EXTENDS Integers, Sequences, FiniteSets, TLC

VARIABLES
    users,  \* users[s]: the dict self.users of the constructed UserService s
    log     \* the calls made so far, oldest first, each with its outcome

vars == <<users, log>>

---------------------------------------------------------------------------
(* Bounds of the model.                                                    *)

MaxCalls == 3        \* calls in a run of the whole system (Spec)
MaxFnCalls == 1      \* calls in a run of the function specification (SpecFn)
MaxCreateCalls == 2  \* calls in a run of SpecCreate
NumInstances == 2    \* UserService instances constructed in a run
MaxLimit == 3        \* largest limit passed to get_users
MaxNegLimit == 2     \* most negative limit passed to get_users
MaxOffset == 11      \* largest offset of the dense offset range
MaxNegOffset == 2    \* most negative offset passed to get_users

---------------------------------------------------------------------------
(* Python values.  A scalar carries its type, so that the integer 0 and    *)
(* the string "0" are different values, as they are for == and for dict    *)
(* keys in Python.                                                         *)

PyInt(n) == [t |-> "int", i |-> n, s |-> ""]
PyStr(x) == [t |-> "str", i |-> 0, s |-> x]
PyNone == [t |-> "none", i |-> 0, s |-> ""]

(* Optional[X]: None is the empty set, a present value x is {x}.           *)
None == {}
Some(x) == {x}

Digits == <<"0", "1", "2", "3", "4", "5", "6", "7", "8", "9">>

(* str(n) of an int: the decimal digits, most significant first, no        *)
(* leading zeros, a leading "-" for a negative number.                     *)
RECURSIVE str(_)
str(n) ==
    IF n < 0 THEN "-" \o str(-n)
    ELSE IF n < 10 THEN Digits[n + 1]
    ELSE str(n \div 10) \o Digits[(n % 10) + 1]

(* range(start, stop) as the list of its elements: max(0, stop - start)    *)
(* integers counting up from start.                                        *)
(* Mutant: the length taken as a distance, never clamped at zero.          *)
range_len_abs(start, stop) == IF stop - start > 0 THEN stop - start ELSE start - stop
range_len(start, stop) == IF stop - start > 0 THEN stop - start ELSE 0
range(start, stop) == [j \in 1..range_len(start, stop) |-> start + (j - 1)]

(* The f-string f"User {i}".                                               *)
user_name(n) == "User " \o str(n)

(* dict operations: d[k] = v, d.get(k), and truthiness of Optional[Dict].  *)
EmptyDict == <<>>
(* Mutant: setdefault, an existing key keeps its value.                    *)
dict_setdefault(d, k, v) == [x \in (DOMAIN d) \cup {k} |-> IF x \in DOMAIN d THEN d[x] ELSE v]
dict_setitem(d, k, v) == [x \in (DOMAIN d) \cup {k} |-> IF x = k THEN v ELSE d[x]]
dict_get(d, k) == IF k \in DOMAIN d THEN Some(d[k]) ELSE None
truthy(data) == data # None /\ \A d \in data : DOMAIN d # {}

---------------------------------------------------------------------------
(* src/src/sample_api.py                                                   *)

DefaultLimit == 10
DefaultOffset == 0

(* [{"id": i, "name": f"User {i}"} for i in range(offset, offset + limit)] *)
get_users_item(n) == [id |-> PyInt(n), name |-> PyStr(user_name(n))]
(* Mutant: limit taken as the stop index, range(offset, limit).            *)
get_users_limit_as_stop(limit, offset) ==
    LET r == range(offset, limit)
    IN  [j \in DOMAIN r |-> get_users_item(r[j])]
get_users(limit, offset) ==
    LET r == range(offset, offset + limit)
    IN  [j \in DOMAIN r |-> get_users_item(r[j])]

NotFound == "not_found"
get_user_by_id(user_id) ==
    IF user_id = NotFound
    THEN None
    ELSE Some([id |-> PyStr(user_id),
               name |-> PyStr("Test User"),
               email |-> PyStr("test@example.com")])

(* Mutant: the id derived from the name.                                   *)
post_create_user_named(name, email) ==
    [id |-> PyStr("usr_" \o name), name |-> PyStr(name), email |-> PyStr(email)]
(* Mutant: the id drawn from a counter of the calls made so far.           *)
post_create_user_counted(name, email) ==
    [id |-> PyStr("usr_" \o str(Len(log))), name |-> PyStr(name), email |-> PyStr(email)]
post_create_user(name, email) ==
    [id |-> PyStr("usr_new"), name |-> PyStr(name), email |-> PyStr(email)]

(* for key in ["name", "email"]: if key not in data: return False          *)
RequiredKeys == <<"name", "email">>
(* Mutant: a key counts only when its value is truthy (not data.get(key)). *)
RECURSIVE validate_loop_truthy(_, _)
validate_loop_truthy(d, j) ==
    IF j > Len(RequiredKeys) THEN TRUE
    ELSE IF RequiredKeys[j] \notin DOMAIN d THEN FALSE
    ELSE IF d[RequiredKeys[j]] \in {PyNone, PyStr("")} THEN FALSE
    ELSE validate_loop_truthy(d, j + 1)
RECURSIVE validate_loop(_, _)
validate_loop(d, j) ==
    IF j > Len(RequiredKeys) THEN TRUE
    ELSE IF RequiredKeys[j] \notin DOMAIN d THEN FALSE
    ELSE validate_loop(d, j + 1)
validate_input(data) ==
    IF ~truthy(data) THEN FALSE
    ELSE LET d == CHOOSE x \in data : TRUE IN validate_loop(d, 1)

---------------------------------------------------------------------------
(* src/src/sample_api_refactored.py                                        *)

UserDefaultEmail == ""
User(id, name, email) == [id |-> PyStr(id), name |-> PyStr(name), email |-> PyStr(email)]

refactored_get_users_item(n) == User(str(n), user_name(n), UserDefaultEmail)
refactored_get_users(limit, offset) ==
    LET r == range(offset, offset + limit)
    IN  [j \in DOMAIN r |-> refactored_get_users_item(r[j])]

(* Mutant: an empty id treated as not found too.                           *)
refactored_get_user_by_id_falsy(user_id) ==
    IF user_id = NotFound \/ user_id = ""
    THEN None
    ELSE Some(User(user_id, "Test User", "test@example.com"))
refactored_get_user_by_id(user_id) ==
    IF user_id = NotFound
    THEN None
    ELSE Some(User(user_id, "Test User", "test@example.com"))

refactored_post_create_user(name, email) == User("usr_new", name, email)

---------------------------------------------------------------------------
(* Calls.  Every call appends its record to the trace.                     *)

Modules == {"sample_api", "sample_api_refactored"}
NoExc == ""

Call(op, m, s, args, exc, ret) ==
    [op |-> op, mod |-> m, inst |-> s, args |-> args, exc |-> exc, ret |-> ret]

Call_get_users(m, limit, offset) ==
    /\ log' = Append(log, Call("get_users", m, 0, <<limit, offset>>, NoExc,
                 IF m = "sample_api" THEN get_users(limit, offset)
                 ELSE refactored_get_users(limit, offset)))
    /\ UNCHANGED users

Call_get_users_default(m) == Call_get_users(m, DefaultLimit, DefaultOffset)

Call_get_user_by_id(m, user_id) ==
    /\ log' = Append(log, Call("get_user_by_id", m, 0, <<user_id>>, NoExc,
                 IF m = "sample_api" THEN get_user_by_id(user_id)
                 ELSE refactored_get_user_by_id(user_id)))
    /\ UNCHANGED users

Call_post_create_user(m, name, email) ==
    /\ log' = Append(log, Call("post_create_user", m, 0, <<name, email>>, NoExc,
                 IF m = "sample_api" THEN post_create_user(name, email)
                 ELSE refactored_post_create_user(name, email)))
    /\ UNCHANGED users

Call_validate_input(data) ==
    /\ log' = Append(log, Call("validate_input", "sample_api", 0, <<data>>, NoExc,
                 validate_input(data)))
    /\ UNCHANGED users

(* UserService(): __init__ gives the new instance an empty dict.           *)
UserService_init ==
    /\ Cardinality(DOMAIN users) < NumInstances
    /\ users' = users @@ ((Cardinality(DOMAIN users) + 1) :> EmptyDict)
    /\ UNCHANGED log

(* Mutant: users as a class attribute, one dict shared by all instances.   *)
add_user_shared(s, user) ==
    /\ s \in DOMAIN users
    /\ IF "id" \in DOMAIN user
       THEN /\ users' = [x \in DOMAIN users |-> dict_setitem(users[x], user["id"], user)]
            /\ log' = Append(log, Call("add_user", "sample_api", s, <<user>>, NoExc, None))
       ELSE /\ users' = users
            /\ log' = Append(log, Call("add_user", "sample_api", s, <<user>>, "KeyError", None))

(* self.users[user["id"]] = user; user["id"] raises KeyError when the      *)
(* dict has no "id".                                                       *)
add_user(s, user) ==
    /\ s \in DOMAIN users
    /\ IF "id" \in DOMAIN user
       THEN /\ users' = [users EXCEPT ![s] = dict_setitem(users[s], user["id"], user)]
            /\ log' = Append(log, Call("add_user", "sample_api", s, <<user>>, NoExc, None))
       ELSE /\ users' = users
            /\ log' = Append(log, Call("add_user", "sample_api", s, <<user>>, "KeyError", None))

(* return self.users.get(user_id)                                          *)
get_user(s, user_id) ==
    /\ s \in DOMAIN users
    /\ log' = Append(log, Call("get_user", "sample_api", s, <<user_id>>, NoExc,
                 dict_get(users[s], user_id)))
    /\ UNCHANGED users

---------------------------------------------------------------------------
(* The whole system: instances are constructed, records are added and      *)
(* looked up, and the module-level functions are called in between.        *)

Init ==
    /\ users = <<>>
    /\ log = <<>>

SysUsers ==
    { get_users(1, 0)[1],
      CHOOSE u \in get_user_by_id("0") : TRUE,
      post_create_user("Alice", "a@x.com"),
      post_create_user("Bob", ""),
      [name |-> PyStr("no id")] }
SysKeys == {PyInt(0), PyStr("0"), PyStr("usr_new")}
SysLimits == {1, 2}
SysUserIds == {"0", "not_found"}
SysNames == {"Alice", "Bob"}

Next ==
    \/ UserService_init
    \/ \E s \in 1..NumInstances, user \in SysUsers :
          Len(log) < MaxCalls /\ add_user(s, user)
    \/ \E s \in 1..NumInstances, k \in SysKeys :
          Len(log) < MaxCalls /\ get_user(s, k)
    \/ \E m \in Modules, limit \in SysLimits :
          Len(log) < MaxCalls /\ Call_get_users(m, limit, 0)
    \/ \E m \in Modules, user_id \in SysUserIds :
          Len(log) < MaxCalls /\ Call_get_user_by_id(m, user_id)
    \/ \E m \in Modules, name \in SysNames :
          Len(log) < MaxCalls /\ Call_post_create_user(m, name, "a@x.com")

Spec == Init /\ [][Next]_vars

---------------------------------------------------------------------------
(* The functions on their own: one call with inputs from bounded sets.     *)

Limits == (-MaxNegLimit)..MaxLimit
Offsets == ((-MaxNegOffset)..MaxOffset) \cup {98, 999}
UserIds == {"not_found", "Not_found", "NOT_FOUND", "not_found ", "not found", "", "u1", "None"}
Names == {"", "Alice", "Bob"}
Emails == {"", "a@x.com", "test@example.com"}
DataKeys == {"name", "email", "id"}
DataValues == {PyNone, PyStr(""), PyStr("a")}
Datas == {None} \cup {Some(d) : d \in UNION {[K -> DataValues] : K \in SUBSET DataKeys}}

NextFn ==
    \/ \E m \in Modules, limit \in Limits, offset \in Offsets :
          Len(log) < MaxFnCalls /\ Call_get_users(m, limit, offset)
    \/ \E m \in Modules :
          Len(log) < MaxFnCalls /\ Call_get_users_default(m)
    \/ \E m \in Modules, user_id \in UserIds :
          Len(log) < MaxFnCalls /\ Call_get_user_by_id(m, user_id)
    \/ \E m \in Modules, name \in Names, email \in Emails :
          Len(log) < MaxFnCalls /\ Call_post_create_user(m, name, email)
    \/ \E data \in Datas :
          Len(log) < MaxFnCalls /\ Call_validate_input(data)

SpecFn == Init /\ [][NextFn]_vars

(* post_create_user called repeatedly.                                     *)
NextCreate ==
    \E m \in Modules, name \in Names, email \in Emails :
        Len(log) < MaxCreateCalls /\ Call_post_create_user(m, name, email)

SpecCreate == Init /\ [][NextCreate]_vars

---------------------------------------------------------------------------
(* Reading the trace.                                                      *)

Calls(op) == {j \in 1..Len(log) : log[j].op = op}
Last(l) == l[Len(l)]
Max(S) == CHOOSE x \in S : \A y \in S : y <= x

(* The add_user calls before call j that stored a record with id k in      *)
(* instance s.                                                             *)
AddsBefore(j, s, k) ==
    {i \in 1..(j - 1) :
        /\ log[i].op = "add_user"
        /\ log[i].inst = s
        /\ log[i].exc = NoExc
        /\ log[i].args[1]["id"] = k}

LatestAdd(j, s, k) ==
    IF AddsBefore(j, s, k) = {} THEN None
    ELSE Some(log[Max(AddsBefore(j, s, k))].args[1])

(* A dictionary record read as a User record, field by field, a missing    *)
(* email read as the default.                                              *)
DictAsUser(d) ==
    [id |-> d["id"], name |-> d["name"],
     email |-> IF "email" \in DOMAIN d THEN d["email"] ELSE PyStr("")]

---------------------------------------------------------------------------
(* C1: get_user(k) on an instance returns the record of the most recent    *)
(* add_user to that instance whose record id equals k, and None when there *)
(* was no such add_user since construction.                                *)
C1_GetReturnsLatestAdd ==
    \A j \in Calls("get_user") :
        /\ log[j].exc = NoExc
        /\ log[j].ret = LatestAdd(j, log[j].inst, log[j].args[1])

(* C1 witness: a record was added, another record with the same id was     *)
(* added to the same instance, and get_user returned the second one.       *)
C1_Witness ==
    /\ Len(log) = 3
    /\ log[1].op = "add_user" /\ log[2].op = "add_user" /\ log[3].op = "get_user"
    /\ log[1].inst = log[3].inst /\ log[2].inst = log[3].inst
    /\ log[1].args[1] = post_create_user("Alice", "a@x.com")
    /\ log[2].args[1] = post_create_user("Bob", "")
    /\ log[3].args[1] = PyStr("usr_new")
    /\ log[3].ret = Some(post_create_user("Bob", ""))

(* C2: for limit >= 0 and offset >= 0, get_users of either module returns  *)
(* exactly limit records, and the record at position i (0-based) is named  *)
(* "User " followed by the decimal form of offset + i.                     *)
C2_GetUsersNames ==
    \A j \in Calls("get_users") :
        LET limit == log[j].args[1]
            offset == log[j].args[2]
        IN  (limit >= 0 /\ offset >= 0) =>
                /\ log[j].exc = NoExc
                /\ DOMAIN log[j].ret = 1..limit
                /\ \A i \in 0..(limit - 1) :
                      log[j].ret[i + 1]["name"] = PyStr("User " \o str(offset + i))

(* C2 witness: three records from offset 98, named User 98, 99 and 100.    *)
C2_Witness ==
    \E j \in Calls("get_users") :
        /\ log[j].mod = "sample_api_refactored"
        /\ log[j].args = <<3, 98>>
        /\ Len(log[j].ret) = 3
        /\ log[j].ret[1]["name"] = PyStr("User 98")
        /\ log[j].ret[3]["name"] = PyStr("User 100")

(* C3: for limit >= 0 and offset >= 0, the id of the i-th record of        *)
(* get_users, in either module, is the string of offset + i.               *)
C3_GetUsersIdsAreStrings ==
    \A j \in Calls("get_users") :
        LET limit == log[j].args[1]
            offset == log[j].args[2]
        IN  (limit >= 0 /\ offset >= 0) =>
                /\ DOMAIN log[j].ret = 1..limit
                /\ \A i \in 0..(limit - 1) :
                      log[j].ret[i + 1]["id"] = PyStr(str(offset + i))

(* C4: get_user_by_id returns None exactly for the string "not_found",     *)
(* and for any other string x the record with id x, name "Test User" and   *)
(* email "test@example.com"; it does not raise.                            *)
C4_GetUserByIdSentinel ==
    \A j \in Calls("get_user_by_id") :
        LET x == log[j].args[1]
        IN  /\ log[j].exc = NoExc
            /\ (log[j].ret = None) <=> (x = "not_found")
            /\ (x # "not_found") =>
                   log[j].ret = Some([id |-> PyStr(x),
                                      name |-> PyStr("Test User"),
                                      email |-> PyStr("test@example.com")])

(* C4 witness: the empty string is not the sentinel: a record with id ""   *)
(* comes back.                                                             *)
C4_Witness ==
    \E j \in Calls("get_user_by_id") :
        /\ log[j].mod = "sample_api_refactored"
        /\ log[j].args[1] = ""
        /\ \E r \in log[j].ret : r["id"] = PyStr("") /\ r["name"] = PyStr("Test User")

(* C5: validate_input returns true exactly when the mapping holds both the *)
(* key "name" and the key "email", whatever the values and the other keys; *)
(* it returns false for an empty or absent mapping.                        *)
C5_ValidateInputPresence ==
    \A j \in Calls("validate_input") :
        LET data == log[j].args[1]
        IN  /\ log[j].exc = NoExc
            /\ log[j].ret \in BOOLEAN
            /\ log[j].ret <=>
                  \E d \in data : "name" \in DOMAIN d /\ "email" \in DOMAIN d

(* C5 witness: both keys present with an empty and a null value, and an    *)
(* extra key: the input is valid.                                          *)
C5_Witness ==
    \E j \in Calls("validate_input") :
        /\ log[j].args[1] =
              Some([name |-> PyStr(""), email |-> PyNone, id |-> PyStr("a")])
        /\ log[j].ret = TRUE

(* C6: post_create_user returns the record with id "usr_new" and the name  *)
(* and email it was given, also for empty strings and for values an        *)
(* earlier call used.                                                      *)
C6_PostCreateUserEchoes ==
    \A j \in Calls("post_create_user") :
        /\ log[j].exc = NoExc
        /\ log[j].ret = [id |-> PyStr("usr_new"),
                         name |-> PyStr(log[j].args[1]),
                         email |-> PyStr(log[j].args[2])]

(* C6 witness: two calls with different names and the same email both      *)
(* returned id "usr_new".                                                  *)
C6_Witness ==
    /\ Len(log) = 2
    /\ log[1].mod = log[2].mod
    /\ log[1].args = <<"Alice", "a@x.com">>
    /\ log[2].args = <<"", "a@x.com">>
    /\ log[1].ret["id"] = PyStr("usr_new")
    /\ log[2].ret["id"] = PyStr("usr_new")
    /\ log[2].ret["name"] = PyStr("")

(* C7: on every input (for get_users, every limit >= 0 and offset >= 0),   *)
(* each function of sample_api_refactored.py returns what the same-named   *)
(* function of sample_api.py returns, a dictionary record read as a User   *)
(* record field by field.                                                  *)
C7_RefactoredSameBehaviour ==
    /\ \A j \in Calls("get_users") :
          (log[j].mod = "sample_api" /\ log[j].args[1] >= 0 /\ log[j].args[2] >= 0) =>
              LET r == refactored_get_users(log[j].args[1], log[j].args[2])
              IN  /\ DOMAIN r = DOMAIN log[j].ret
                  /\ \A i \in DOMAIN r : r[i] = DictAsUser(log[j].ret[i])
    /\ \A j \in Calls("get_user_by_id") :
          log[j].mod = "sample_api" =>
              refactored_get_user_by_id(log[j].args[1]) =
                  {DictAsUser(d) : d \in log[j].ret}
    /\ \A j \in Calls("post_create_user") :
          log[j].mod = "sample_api" =>
              refactored_post_create_user(log[j].args[1], log[j].args[2]) =
                  DictAsUser(log[j].ret)

(* C8: two calls of get_users, get_user_by_id or post_create_user of the   *)
(* same module with the same arguments return the same result whatever was *)
(* called before or between them, and no such call changes a store.        *)
PureOps == {"get_users", "get_user_by_id", "post_create_user"}
SameResults ==
    \A i, j \in 1..Len(log) :
        (/\ log[i].op \in PureOps
         /\ log[i].op = log[j].op
         /\ log[i].mod = log[j].mod
         /\ log[i].args = log[j].args) => log[i].ret = log[j].ret
C8_Pure ==
    /\ []SameResults
    /\ [][(Len(log') = Len(log) + 1 /\ Last(log').op \in PureOps) => users' = users]_vars

(* C8 witness: the same call before and after a record was stored.         *)
C8_Witness ==
    /\ Len(log) = 3
    /\ log[1].op = "post_create_user" /\ log[3].op = "post_create_user"
    /\ log[1].mod = log[3].mod /\ log[1].args = log[3].args
    /\ log[2].op = "add_user" /\ log[2].exc = NoExc
    /\ log[1].ret = log[3].ret

(* C9: get_user leaves every mapping as it was; add_user(record) leaves    *)
(* the entry of every id other than the record's id as it was, and leaves  *)
(* the mapping of every other instance as it was.                          *)
SameEntry(d, e, k) ==
    (k \in DOMAIN d <=> k \in DOMAIN e) /\ (k \in DOMAIN d => d[k] = e[k])
C9_StoreFrame ==
    [][Len(log') = Len(log) + 1 =>
          LET c == Last(log')
          IN  /\ c.op = "get_user" => users' = users
              /\ c.op = "add_user" =>
                    /\ DOMAIN users' = DOMAIN users
                    /\ \A s \in DOMAIN users : s # c.inst => users'[s] = users[s]
                    /\ \A k \in DOMAIN users[c.inst] \cup DOMAIN users'[c.inst] :
                          \/ "id" \in DOMAIN c.args[1] /\ k = c.args[1]["id"]
                          \/ SameEntry(users[c.inst], users'[c.inst], k)]_vars

(* C9 witness: a record was added to an instance that already held a       *)
(* record under another id, while a second instance held a record too.     *)
C9_Witness ==
    /\ Len(log) = 3
    /\ DOMAIN users = {1, 2}
    /\ Last(log).op = "add_user" /\ Last(log).inst = 1
    /\ Cardinality(DOMAIN users[1]) = 2
    /\ Cardinality(DOMAIN users[2]) = 1

(* C10: get_users returns max(limit, 0) records and does not raise: for a  *)
(* negative limit, with any offset, the result is the empty sequence.      *)
C10_NegativeLimitEmpty ==
    \A j \in Calls("get_users") :
        LET limit == log[j].args[1]
        IN  /\ log[j].exc = NoExc
            /\ Len(log[j].ret) = (IF limit > 0 THEN limit ELSE 0)
            /\ limit < 0 => log[j].ret = <<>>

(* C10 witness: a negative limit with a negative offset gave no records.   *)
C10_Witness ==
    \E j \in Calls("get_users") :
        /\ log[j].mod = "sample_api"
        /\ log[j].args = <<-2, -1>>
        /\ log[j].ret = <<>>

===========================================================================
